---- MODULE Spec2Model ----
(***************************************************************************)
(* Model of the kernel's SwissTable hash map                              *)
(* (src/util/collections/hashmap.rs), instantiated as HashMap<u32, u32>   *)
(* with the default XORHasher, as in the module's own tests.              *)
(*                                                                         *)
(* The data buffer `data: Vec<u8>` is modelled as a record                 *)
(*   [size  : the byte length of the vector (data.len()),                  *)
(*    slots : the slot region, one entry per slot,                         *)
(*    ctrl  : the control region, one byte per slot].                      *)
(* A slot is a MaybeUninit key/value pair: [init, key, value].             *)
(* Option values are sequences: None == <<>>, Some(x) == <<x>>.            *)
(***************************************************************************)
EXTENDS Integers, Sequences, FiniteSets, TLC

\* ---------------------------------------------------------------- constants
CTRL_EMPTY == 128
CTRL_DELETED == 254
GROUP_SIZE == 16
\* size_of::<Slot<u32, u32>>()
SlotSize == 8

\* ------------------------------------------------------------------- bounds
\* bulk builds (from_iter) take GROUP_SIZE .. GROUP_SIZE + MaxExtra elements
MaxExtra == 1
\* growth is not followed beyond this capacity
MaxCapacity == 64
\* nested retries of insert that are followed
MaxDepth == 2
\* groups of the largest table a probe is followed step by step in
MaxGroups == 3

\* keys used by the single-key operations: 16 starts probing at group 0,
\* 128 starts probing at group 1 of a table with two or more groups
OpKeys == {16, 128}
Vals == {1, 2}
BulkSizes == GROUP_SIZE..(GROUP_SIZE + MaxExtra)
CapacityRequests == {2 * GROUP_SIZE + 1}

\* usize::MAX. usize arithmetic is modulo 2^w (w = 32 or 64, the target's
\* pointer width); a usize of 2^(w-1) or more is written as the negative
\* integer congruent to it, so that the wrapped sum of two usize is their sum.
USIZE_MAX == -1

Additionals == {0, 1, 2 * GROUP_SIZE + 1, USIZE_MAX}
Preds == {"even_key", "none", "value_is_key"}
AllKeys == OpKeys \cup (0..(GROUP_SIZE + MaxExtra - 1))

None == << >>
Some(x) == << x >>

Min(S) == CHOOSE x \in S : \A y \in S : x <= y

\* the element of a one-element set; binding a loop's next state with
\* `x \in {e}` computes e before the loop goes on
Only(S) == CHOOSE x \in S : TRUE

\* ------------------------------------------------------ integer primitives
RECURSIVE xor(_, _)
xor(a, b) ==
    IF a = 0 THEN b
    ELSE IF b = 0 THEN a
    ELSE 2 * xor(a \div 2, b \div 2) + (((a % 2) + (b % 2)) % 2)

RECURSIVE pow2(_)
pow2(n) == IF n = 0 THEN 1 ELSE 2 * pow2(n - 1)

next_multiple_of(x, m) == IF x % m = 0 THEN x ELSE x + (m - (x % m))

RECURSIVE next_power_of_two_from(_, _)
next_power_of_two_from(x, p) == IF p >= x THEN p ELSE next_power_of_two_from(x, 2 * p)

next_power_of_two(x) == next_power_of_two_from(x, 1)

\* ------------------------------------------------------------------ hashing
\* u32::to_ne_bytes on a little-endian target
to_ne_bytes(k) == [i \in 0..3 |-> (k \div pow2(8 * i)) % 256]

\* XORHasher::write, one byte at a time; st = [value, off].  The four bytes
\* of a u32 key land in the low 32 bits, so the u64 value never wraps.
xor_write_byte(st, b) ==
    [value |-> xor(st.value, b * pow2(st.off * 8)),
     off   |-> (st.off + 1) % 8]

RECURSIVE xor_write(_, _, _)
xor_write(st, bytes, i) ==
    IF i > 3 THEN st ELSE xor_write(xor_write_byte(st, bytes[i]), bytes, i + 1)

hash(key) == xor_write([value |-> 0, off |-> 0], to_ne_bytes(key), 0).value

h1(hsh) == hsh \div 128

h2(hsh) == hsh % 128

\* ----------------------------------------------------------- storage layout
Uninit == [init |-> FALSE, key |-> 0, value |-> 0]

EmptyVec == [size |-> 0, slots |-> << >>, ctrl |-> << >>]

\* an init_data that does not round the capacity up to whole groups
init_data_unrounded(capacity) ==
    LET new_ctrl_off == next_multiple_of(capacity * SlotSize, GROUP_SIZE)
        new_size == new_ctrl_off + capacity
    IN  [size  |-> new_size,
         slots |-> [i \in 1..capacity |-> Uninit],
         ctrl  |-> [i \in 1..(new_size - new_ctrl_off) |-> CTRL_EMPTY]]

init_data(capacity) ==
    LET cap == next_multiple_of(capacity, GROUP_SIZE)
        new_ctrl_off == next_multiple_of(cap * SlotSize, GROUP_SIZE)
        new_size == new_ctrl_off + cap
    IN  [size  |-> new_size,
         slots |-> [i \in 1..cap |-> Uninit],
         ctrl  |-> [i \in 1..(new_size - new_ctrl_off) |-> CTRL_EMPTY]]

capacity_impl(data) == data.size \div (SlotSize + 1)

get_ctrl(data, group) == [i \in 0..(GROUP_SIZE - 1) |-> data.ctrl[group * GROUP_SIZE + i + 1]]

set_ctrl(data, group, index, byte) ==
    [data EXCEPT !.ctrl[group * GROUP_SIZE + index + 1] = byte]

get_slot_offset(group, index) == (group * GROUP_SIZE + index) * SlotSize

get_slot_position(off) ==
    LET o == off \div SlotSize
    IN  [group |-> o \div GROUP_SIZE, index |-> o % GROUP_SIZE]

\* get_slot!(data, off)
get_slot(data, off) == data.slots[(off \div SlotSize) + 1]

\* slot.key.write(key); slot.value.write(value)
write_slot(data, off, key, value) ==
    [data EXCEPT !.slots[(off \div SlotSize) + 1] =
        [init |-> TRUE, key |-> key, value |-> value]]

\* ------------------------------------------------------------ group matches
group_match_byte(ctrl, byte) == {i \in 0..(GROUP_SIZE - 1) : ctrl[i] = byte}

\* a match of unused slots that never takes a tombstone for one
group_match_unused_empty_only(ctrl, deleted) ==
    LET matching == {i \in 0..(GROUP_SIZE - 1) : ctrl[i] = CTRL_EMPTY}
    IN  IF matching = {} THEN None ELSE Some(Min(matching))

group_match_unused(ctrl, deleted) ==
    LET matching == IF deleted
                    THEN {i \in 0..(GROUP_SIZE - 1) : ctrl[i] >= 128}
                    ELSE {i \in 0..(GROUP_SIZE - 1) : ctrl[i] = CTRL_EMPTY}
    IN  IF matching = {} THEN None ELSE Some(Min(matching))

group_match_used(ctrl) == {i \in 0..(GROUP_SIZE - 1) : ctrl[i] < 128}

\* ------------------------------------------------------------------- probing
\* one iteration of find_slot's loop, up to the match of unused slots: the
\* slot found in `group`, or None when the probe has to go on
find_slot_group(data, key, hsh, deleted, group) ==
    LET ctrl == get_ctrl(data, group)
        hits == {i \in group_match_byte(ctrl, h2(hsh)) :
                    get_slot(data, get_slot_offset(group, i)).key = key}
        unused == group_match_unused(ctrl, deleted)
    IN  IF hits # {}
        THEN Some([off |-> get_slot_offset(group, Min(hits)), occupied |-> TRUE])
        ELSE IF unused # None
        THEN Some([off |-> get_slot_offset(group, unused[1]), occupied |-> FALSE])
        ELSE None

\* the group the probe goes on with
find_slot_next_group(group, groups_count) == (group + 1) % groups_count

\* a probe that never notices it is back at its first group
find_slot_wrapped_never(group, start_group) == FALSE

\* the probe has come back to the first group
find_slot_wrapped(group, start_group) == group = start_group

RECURSIVE find_slot_loop(_, _, _, _, _, _)
find_slot_loop(data, key, hsh, deleted, start_group, group) ==
    Only({IF found # None
          THEN found
          ELSE IF find_slot_wrapped(next, start_group)
          THEN None
          ELSE find_slot_loop(data, key, hsh, deleted, start_group, next)
          : found \in {find_slot_group(data, key, hsh, deleted, group)},
            next \in {find_slot_next_group(group, capacity_impl(data) \div GROUP_SIZE)}})

find_slot(data, key, hsh, deleted) ==
    LET groups_count == capacity_impl(data) \div GROUP_SIZE
    IN  IF groups_count = 0
        THEN None
        ELSE LET start_group == h1(hsh) % groups_count
             IN  find_slot_loop(data, key, hsh, deleted, start_group, start_group)

\* ---------------------------------------------------------------- ownership
\* what a call does with the keys and values it owns: how many it takes from
\* the caller, destructs, hands back and moves to another buffer, and whether
\* it destructs or reads a slot that holds nothing, writes over or releases a
\* slot that holds an entry (`unsound`)
NoOwn ==
    [keys_in |-> 0, values_in |-> 0, key_drops |-> 0, value_drops |-> 0,
     values_out |-> 0, moved |-> 0, unsound |-> FALSE]

\* the slots of a buffer that hold an initialized key and value
live_slots(data) == {i \in 1..Len(data.slots) : data.slots[i].init}

\* --------------------------------------------------------------- the table
\* a new() that allocates one group up front
new_preallocated == [data |-> init_data(1), len |-> 0]

new == [data |-> EmptyVec, len |-> 0]

capacity(hm) == capacity_impl(hm.data)

get(hm, key) ==
    LET found == find_slot(hm.data, key, hash(key), FALSE)
    IN  IF found = None THEN None
        ELSE IF found[1].occupied
        THEN Some(get_slot(hm.data, found[1].off).value)
        ELSE None

contains_key(hm, key) == get(hm, key) # None

\* the Entry of a key: Occupied with the slot of the key, or Vacant with the
\* slot an insertion would use, if there is one
entry(hm, key) ==
    LET found == find_slot(hm.data, key, hash(key), TRUE)
    IN  IF found = None
        THEN [kind |-> "Vacant", inner |-> None]
        ELSE IF found[1].occupied
        THEN [kind |-> "Occupied", inner |-> Some(found[1].off)]
        ELSE [kind |-> "Vacant", inner |-> Some(found[1].off)]

\* ---------------------------------------------------------------- iteration
iter == [group |-> 0, group_used |-> {}, cursor |-> 0, count |-> 0]

RECURSIVE iter_next_loop(_, _)
iter_next_loop(hm, it) ==
    LET cap == capacity(hm)
        used == IF it.cursor = 0
                THEN group_match_used(get_ctrl(hm.data, it.group))
                ELSE it.group_used
    IN  IF used # {}
        THEN LET cursor == Min(used)
                 slot == get_slot(hm.data, get_slot_offset(it.group, cursor))
             IN  [it   |-> [group      |-> it.group,
                            group_used |-> used \ {cursor},
                            cursor     |-> cursor + 1,
                            count      |-> it.count + 1],
                  item |-> Some([key |-> slot.key, value |-> slot.value])]
        ELSE LET moved == [group      |-> it.group + 1,
                           group_used |-> used,
                           cursor     |-> 0,
                           count      |-> it.count]
             IN  IF moved.group >= cap \div GROUP_SIZE
                 THEN [it |-> moved, item |-> None]
                 ELSE iter_next_loop(hm, moved)

iter_next(hm, it) ==
    IF it.group * GROUP_SIZE + it.cursor >= capacity(hm)
    THEN [it |-> it, item |-> None]
    ELSE iter_next_loop(hm, it)

\* one iteration of a `for (k, v) in hm.iter()` loop: st.items are the items
\* seen so far, st.it is the iterator, st.done tells that next() returned None
iter_collect_step(hm, st) ==
    IF st.done
    THEN st
    ELSE Only({IF r.item = None
               THEN [items |-> st.items, it |-> r.it, done |-> TRUE]
               ELSE [items |-> Append(st.items, r.item[1]), it |-> r.it,
                     done |-> FALSE]
               : r \in {iter_next(hm, st.it)}})

\* n iterations of the loop, the first half of them, then the rest
RECURSIVE iter_collect_steps(_, _, _)
iter_collect_steps(hm, st, n) ==
    IF n <= 0
    THEN st
    ELSE IF n = 1
    THEN iter_collect_step(hm, st)
    ELSE Only({iter_collect_steps(hm, half, rest) :
                 rest \in {n - (n \div 2)},
                 half \in {iter_collect_steps(hm, st, n \div 2)}})

\* the items of a `for (k, v) in hm.iter()` loop, and the iterator it ends
\* with: next() returns None after capacity() items at most
iter_collect(hm) ==
    Only({[items |-> st.items, it |-> st.it] :
            st \in {iter_collect_steps(hm, [items |-> << >>, it |-> iter,
                                            done |-> FALSE],
                                       capacity(hm) + 1)}})

\* ------------------------------------------------------------------- growth
\* a rehash that tags the moved entry with the wrong half of its hash
rehash_ctrl_h1(hsh) == h1(hsh) % 128

\* the control byte reserve's rehash gives the slot an entry moves to
rehash_ctrl(hsh) == h2(hsh)

\* one iteration of the rehash loop of reserve: st.data is the new buffer; a
\* failed unwrap or assert! is a kernel panic, after which nothing runs
rehash_item(st, item) ==
    IF st.panic
    THEN st
    ELSE Only({IF found = None
               THEN [data |-> st.data, panic |-> TRUE]
               ELSE IF found[1].occupied
               THEN [data |-> st.data, panic |-> TRUE]
               ELSE LET pos == get_slot_position(found[1].off)
                        marked == set_ctrl(st.data, pos.group, pos.index,
                                           rehash_ctrl(hsh))
                    IN  [data  |-> write_slot(marked, found[1].off, item.key,
                                              item.value),
                         panic |-> FALSE]
               : hsh \in {hash(item.key)},
                 found \in {find_slot(st.data, item.key, hash(item.key), TRUE)}})

\* the iterations of the rehash loop for items[lo..hi], the first half of
\* them, then the rest
RECURSIVE rehash_range(_, _, _, _)
rehash_range(st, items, lo, hi) ==
    IF lo > hi
    THEN st
    ELSE IF lo = hi
    THEN rehash_item(st, items[lo])
    ELSE Only({rehash_range(half, items, mid + 1, hi) :
                 mid \in {(lo + hi) \div 2},
                 half \in {rehash_range(st, items, lo, (lo + hi) \div 2)}})

\* the rehash loop of reserve over the items of self.iter(), from items[i]
\* on; `data` is the new buffer
rehash(data, items, i) ==
    rehash_range([data |-> data, panic |-> FALSE], items, i, Len(items))

\* the rehash loop leaves an entry behind in the old buffer, which is freed
\* without destructing it, moves an entry twice, or writes one over another
rehash_unsound(old, items, data) ==
    \/ Len(items) # Cardinality(live_slots(old))
    \/ Len(items) # Cardinality(live_slots(data))

\* `self.len + additional` or the `next_power_of_two` of it overflows usize:
\* a panic when the build has overflow checks, a wrapped result otherwise
reserve_overflows(len, additional) ==
    \/ additional < 0 /\ len + additional >= 0
    \/ len + additional < 0

\* a reserve that leaves no headroom
reserve_capacity_no_headroom(len, additional) ==
    next_power_of_two(len + additional - 1)

\* the capacity reserve asks init_data for; without overflow checks the sum
\* wraps and next_power_of_two of a value above 2^(w-1) wraps to 0
reserve_capacity(len, additional) ==
    IF len + additional < 0 THEN 0 ELSE next_power_of_two(len + additional)

\* a reserve that gives up the old buffer before the new one is allocated
reserve_drops_buffer(hm) == [data |-> EmptyVec, len |-> hm.len]

\* what reserve leaves in self when the allocation of the new buffer fails
reserve_on_alloc_error(hm) == hm

\* alloc_ok: whether the allocation made by init_data succeeds.
\* Result: the table, res ("ok" | "err" | "panic"), and whether a buffer was
\* allocated.
reserve(hm, additional, alloc_ok, overflow_checks) ==
    LET new_capacity == reserve_capacity(hm.len, additional)
    IN  IF overflow_checks /\ reserve_overflows(hm.len, additional)
        THEN [hm |-> hm, res |-> "panic", allocated |-> FALSE, own |-> NoOwn]
        ELSE IF capacity(hm) >= new_capacity
        THEN [hm |-> hm, res |-> "ok", allocated |-> FALSE, own |-> NoOwn]
        ELSE IF ~alloc_ok
        THEN [hm |-> reserve_on_alloc_error(hm), res |-> "err", allocated |-> FALSE,
              own |-> NoOwn]
        ELSE Only({Only({IF r.panic
                         THEN [hm |-> hm, res |-> "panic", allocated |-> TRUE,
                               own |-> NoOwn]
                         ELSE [hm |-> [data |-> r.data, len |-> hm.len],
                               res |-> "ok", allocated |-> TRUE,
                               own |-> [NoOwn EXCEPT
                                          !.moved = Len(items),
                                          !.unsound = rehash_unsound(hm.data, items,
                                                                     r.data)]]
                         : r \in {rehash(init_data(new_capacity), items, 1)}})
                   : items \in {iter_collect(hm).items}})

\* ---------------------------------------------------------------- insertion
\* an insert that forgets to count the new entry
insert_len_forgotten(len) == len

\* len after insert has filled a free slot
insert_len(len) == len + 1

\* an insert that tags the slot with the low bits of h1
insert_ctrl_h1(hsh) == h1(hsh) % 128

\* the control byte insert gives the slot it fills
insert_ctrl(hsh) == h2(hsh)

RECURSIVE insert_at(_, _, _, _, _)

\* the no-slot branch of insert
insert_retry(hm, key, value, alloc_ok, depth) ==
    Only({IF r.res # "ok"
          THEN [hm |-> r.hm, res |-> r.res, ret |-> None, grown |-> 1,
                retry |-> "none",
                own |-> [NoOwn EXCEPT !.keys_in = 1, !.values_in = 1,
                                      !.key_drops = 1, !.value_drops = 1]]
          ELSE Only({[hm    |-> again.hm,
                      res   |-> IF again.res = "ok" THEN "ok" ELSE "panic",
                      ret   |-> None,
                      grown |-> 1 + again.grown,
                      retry |-> IF again.res = "ok" THEN "ok" ELSE "failed",
                      own   |-> [again.own EXCEPT
                                   !.moved = r.own.moved + again.own.moved,
                                   !.unsound = r.own.unsound \/ again.own.unsound]]
                     : again \in {insert_at(r.hm, key, value, alloc_ok, depth + 1)}})
          : r \in {reserve(hm, 1, alloc_ok, TRUE)}})

\* insert at `depth` nested retries. Result: the table, res ("ok" | "err" |
\* "panic"), the returned Option<V>, `grown`: the calls of reserve, `retry`:
\* how the retried insert ended, `own`: what became of the key and the value.
\* The retry is a recursive call: beyond MaxDepth nested retries the kernel
\* stack is taken as exhausted.
insert_at(hm, key, value, alloc_ok, depth) ==
    Only({
        IF found # None /\ found[1].occupied
        THEN LET old == get_slot(hm.data, found[1].off)
             IN  [hm    |-> [hm EXCEPT !.data = write_slot(@, found[1].off, old.key, value)],
                  res   |-> "ok",
                  ret   |-> Some(old.value),
                  grown |-> 0,
                  retry |-> "none",
                  own   |-> [NoOwn EXCEPT !.keys_in = 1, !.values_in = 1,
                                          !.key_drops = 1, !.values_out = 1,
                                          !.unsound = ~old.init]]
        ELSE IF found # None
        THEN LET pos == get_slot_position(found[1].off)
                 marked == set_ctrl(hm.data, pos.group, pos.index, insert_ctrl(hsh))
             IN  [hm    |-> [data |-> write_slot(marked, found[1].off, key, value),
                             len  |-> insert_len(hm.len)],
                  res   |-> "ok",
                  ret   |-> None,
                  grown |-> 0,
                  retry |-> "none",
                  own   |-> [NoOwn EXCEPT !.keys_in = 1, !.values_in = 1,
                                          !.unsound = get_slot(hm.data, found[1].off).init]]
        ELSE IF depth >= MaxDepth
        THEN [hm |-> hm, res |-> "panic", ret |-> None, grown |-> 0, retry |-> "none",
              own |-> NoOwn]
        ELSE insert_retry(hm, key, value, alloc_ok, depth)
        : hsh \in {hash(key)}, found \in {find_slot(hm.data, key, hash(key), TRUE)}})

insert(hm, key, value, alloc_ok) == insert_at(hm, key, value, alloc_ok, 0)

\* ------------------------------------------------------------------ removal
\* a remove that never leaves a tombstone
vacated_ctrl_always_empty(ctrl) == CTRL_EMPTY

\* a remove that always leaves a tombstone
vacated_ctrl_always_deleted(ctrl) == CTRL_DELETED

\* the control byte remove gives the slot it vacates, from the control bytes
\* of the slot's group before the removal
vacated_ctrl(ctrl) ==
    IF group_match_unused(ctrl, FALSE) # None THEN CTRL_EMPTY ELSE CTRL_DELETED

\* len after remove has vacated a slot
remove_len(len) == len - 1

\* a remove that counts a key it has not found
remove_miss_counted(hm) == [hm EXCEPT !.len = remove_len(hm.len)]

\* the table after remove has found an unused slot instead of the key
remove_miss(hm) == hm

remove(hm, key) ==
    Only({
        IF found = None
        THEN [hm |-> hm, ret |-> None, own |-> NoOwn]
        ELSE IF found[1].occupied
        THEN LET pos == get_slot_position(found[1].off)
                 ctrl == get_ctrl(hm.data, pos.group)
                 marked == set_ctrl(hm.data, pos.group, pos.index, vacated_ctrl(ctrl))
                 slot == get_slot(hm.data, found[1].off)
             IN  [hm  |-> [data |-> [marked EXCEPT !.slots[(found[1].off \div SlotSize) + 1] = Uninit],
                           len  |-> remove_len(hm.len)],
                  ret |-> Some(slot.value),
                  own |-> [NoOwn EXCEPT !.key_drops = 1, !.values_out = 1,
                                        !.unsound = ~slot.init]]
        ELSE [hm |-> remove_miss(hm), ret |-> None, own |-> NoOwn]
        : found \in {find_slot(hm.data, key, hash(key), FALSE)}})

\* the predicates handed to retain
keep(pred, key, value) ==
    CASE pred = "even_key"     -> key % 2 = 0
      [] pred = "none"         -> FALSE
      [] pred = "value_is_key" -> value = key

\* a retain that counts one removal per group
retain_len_once(len, remove_count) == len - 1

\* len after retain has removed remove_count slots of a group
retain_len(len, remove_count) == len - remove_count

\* a retain that leaves no tombstone
retain_vacated_ctrl_always_empty(ctrl) == CTRL_EMPTY

\* the control byte retain gives the slots it vacates in a group, from the
\* group's control bytes before the removals
retain_vacated_ctrl(ctrl) ==
    IF group_match_unused(ctrl, FALSE) # None THEN CTRL_EMPTY ELSE CTRL_DELETED

\* a retain that removes what the predicate keeps
retain_removes_kept(kept) == kept

\* retain's test on the predicate's answer: `if !keep`
retain_removes(kept) == ~kept

\* the slots the predicate is called on in one iteration of retain's loop over
\* the groups, in the order of the calls
retain_group_calls(hm, group) ==
    LET used == group_match_used(get_ctrl(hm.data, group))
        indices == [i \in 1..GROUP_SIZE |-> i - 1]
        is_used(i) == i \in used
        offset_of(i) == get_slot_offset(group, i)
        called == SelectSeq(indices, is_used)
    IN  [n \in 1..Len(called) |-> offset_of(called[n])]

\* the slots retain destructs in one iteration of its loop over the groups
retain_group_drops(hm, pred, group) ==
    {get_slot_offset(group, i) \div SlotSize + 1 :
       i \in {j \in group_match_used(get_ctrl(hm.data, group)) :
                LET slot == get_slot(hm.data, get_slot_offset(group, j))
                IN  retain_removes(keep(pred, slot.key, slot.value))}}

\* a retain that rewrites the control byte of every slot of the group
retain_marks_all(remove_mask, i) == TRUE

\* retain's test on the removal mask: slot i of the group gets the byte
retain_marks(remove_mask, i) == i \in remove_mask

\* one iteration of retain's loop over the groups
retain_group(hm, pred, group) ==
    LET ctrl == get_ctrl(hm.data, group)
        byte == retain_vacated_ctrl(ctrl)
        remove_mask == {i \in group_match_used(ctrl) :
                          LET slot == get_slot(hm.data, get_slot_offset(group, i))
                          IN  retain_removes(keep(pred, slot.key, slot.value))}
        remove_count == Cardinality(remove_mask)
        base == group * GROUP_SIZE
    IN  IF remove_count > 0
        THEN [data |-> [size  |-> hm.data.size,
                        slots |-> [j \in 1..Len(hm.data.slots) |->
                                     IF j - 1 - base \in remove_mask
                                     THEN Uninit ELSE hm.data.slots[j]],
                        ctrl  |-> [j \in 1..Len(hm.data.ctrl) |->
                                     IF /\ j - 1 - base \in 0..(GROUP_SIZE - 1)
                                        /\ retain_marks(remove_mask, j - 1 - base)
                                     THEN byte ELSE hm.data.ctrl[j]]],
              len  |-> retain_len(hm.len, remove_count)]
        ELSE hm

\* retain's loop over the groups; st.hm is the table, st.calls the slots the
\* predicate has been called on so far and st.own what has been destructed
RECURSIVE retain_from(_, _, _)
retain_from(st, pred, group) ==
    IF group >= capacity(st.hm) \div GROUP_SIZE
    THEN st
    ELSE Only({retain_from(next, pred, g) :
                 next \in {LET drops == retain_group_drops(st.hm, pred, group)
                           IN  [hm    |-> retain_group(st.hm, pred, group),
                                calls |-> st.calls \o retain_group_calls(st.hm, group),
                                own   |-> [st.own EXCEPT
                                             !.key_drops = @ + Cardinality(drops),
                                             !.value_drops = @ + Cardinality(drops),
                                             !.unsound = @ \/ \E i \in drops :
                                                 ~st.hm.data.slots[i].init]]},
                 g \in {group + 1}})

retain(hm, pred) ==
    retain_from([hm |-> hm, calls |-> << >>, own |-> NoOwn], pred, 0)

\* Vec::clear on the buffer of bytes: the buffer is released, no destructor
\* of a key or value runs
vec_clear(data) == EmptyVec

\* a clear that destructs nothing
clear_drops_nothing(hm) == [hm |-> hm, calls |-> << >>, own |-> NoOwn]

\* the first statement of clear: self.retain(|_, _| false)
clear_drop_all(hm) == retain(hm, "none")

\* a clear that keeps the buffer
clear_keeps_buffer(hm) == clear_drop_all(hm)

clear(hm) ==
    Only({[hm    |-> [data |-> vec_clear(dropped.hm.data), len |-> 0],
           calls |-> dropped.calls,
           own   |-> [dropped.own EXCEPT
                        !.unsound = @ \/ live_slots(dropped.hm.data) # {}]]
          : dropped \in {clear_drop_all(hm)}})

\* Drop for HashMap
drop(hm) == clear(hm)

\* ------------------------------------------------------------- construction
with_capacity(cap) == [data |-> init_data(cap), len |-> 0]

\* (0..n).map(|i| (i, i)).collect(): with_capacity(n), then one insert per
\* pair; every allocation succeeds. from_iter_loop(hm, i, n) is the inserts
\* of the pairs i..n-1 in this order, the first half of them, then the rest.
RECURSIVE from_iter_loop(_, _, _)
from_iter_loop(hm, i, n) ==
    IF i >= n
    THEN hm
    ELSE IF n - i = 1
    THEN insert(hm, i, i, TRUE).hm
    ELSE Only({from_iter_loop(half, mid, n) :
                 mid \in {(i + n) \div 2},
                 half \in {from_iter_loop(hm, i, (i + n) \div 2)}})

from_iter(n) == from_iter_loop(with_capacity(n), 0, n)

\* -------------------------------------------------------------- ring buffer
\* the largest linear buffer of a ring
MaxRingSize == 3
\* a ring accepts no write once this many elements were accepted since it was
\* new or cleared
MaxHistory == 3

\* a RingBuffer<u8, [u8; N]>: cell i of the linear buffer is buffer[i + 1]. A
\* ring over no cell holds nothing, and every read and write on it panics
\* (`% buffer_size`), so the rings of the model have at least one cell
RingSizes == 1..MaxRingSize
Elems == {1, 2}
\* the slices handed to write
RingBufs == UNION {[1..n -> Elems] : n \in 0..MaxRingSize}
\* the lengths of the slices handed to read and peek
RingLens == 0..MaxRingSize

rb_new(buffer) == [buffer |-> buffer, read_cursor |-> 0, write_cursor |-> 0]

get_size(rb) == Len(rb.buffer)

is_empty(rb) == rb.read_cursor = rb.write_cursor

get_data_len(rb) ==
    IF rb.read_cursor <= rb.write_cursor
    THEN rb.write_cursor - rb.read_cursor
    ELSE get_size(rb) - (rb.read_cursor - rb.write_cursor)

\* an available length that counts every cell
get_available_len_whole(rb) == get_size(rb) - get_data_len(rb)

get_available_len(rb) == get_size(rb) - get_data_len(rb) - 1

min(a, b) == IF a <= b THEN a ELSE b

\* a peek that takes all the ring holds, whatever the length of buf
peek_len_whole(n, data_len) == data_len

\* the number of elements peek copies into a buf of length n
peek_len(n, data_len) == min(n, data_len)

\* peek(buf) with buf.len() = n: the number of elements copied and the
\* elements now at the front of buf
rb_peek(rb, n) ==
    LET cursor == rb.read_cursor
        len == peek_len(n, get_data_len(rb))
        buffer_size == get_size(rb)
        l0 == min(cursor + len, buffer_size) - cursor
    IN  [len |-> len,
         out |-> [i \in 1..len |-> IF i <= l0 THEN rb.buffer[cursor + i]
                                   ELSE rb.buffer[i - l0]]]

\* a read that leaves its cursor where it was
read_cursor_kept(rb, len) == rb.read_cursor

\* the read cursor after len elements were read
read_cursor_after(rb, len) == (rb.read_cursor + len) % get_size(rb)

rb_read(rb, n) ==
    Only({[rb  |-> [rb EXCEPT !.read_cursor = read_cursor_after(rb, p.len)],
           len |-> p.len,
           out |-> p.out]
          : p \in {rb_peek(rb, n)}})

rb_write(rb, buf) ==
    LET cursor == rb.write_cursor
        len == min(Len(buf), get_available_len(rb))
        buffer_size == get_size(rb)
        l0 == min(cursor + len, buffer_size) - cursor
        l1 == len - l0
    IN  [rb  |-> [rb EXCEPT
                    !.buffer = [j \in 1..buffer_size |->
                                  IF j - 1 < l1 THEN buf[l0 + j]
                                  ELSE IF cursor <= j - 1 /\ j - 1 < cursor + l0
                                  THEN buf[j - cursor]
                                  ELSE rb.buffer[j]],
                    !.write_cursor = (rb.write_cursor + len) % buffer_size],
         len |-> len]

rb_clear(rb) == [rb EXCEPT !.read_cursor = 0, !.write_cursor = 0]

\* no ring is under test
NoRing ==
    [rb |-> rb_new(<< >>), op |-> "none", buf |-> << >>, n |-> 0, ret |-> 0,
     out |-> << >>, written |-> << >>, taken |-> << >>]

\* ------------------------------------------------------------------ socket
\* the cells of each buffer of a socket: BUFFER_SIZE, scaled down
SocketBufferSize == 3
\* a side starts no write once the socket has accepted this many of its bytes
MaxSent == 2

\* the two sides of a socket, named by their field `other`
Sides == BOOLEAN
\* the bytes a side writes: the two sides write different bytes, so that a
\* byte read tells which side wrote it
SideBytes(other) == IF other THEN {3, 4} ELSE {1, 2}
SideBufs(other) == UNION {[1..n -> SideBytes(other)] : n \in 0..2}
SideLens == 0..2

\* Socket::new, its two allocations done
socket_new(size) ==
    [receive_buffer |-> rb_new([i \in 1..size |-> 0]),
     send_buffer    |-> rb_new([i \in 1..size |-> 0])]

\* a side that reads from the buffer it writes to
side_read_own_buffer(other) == IF other THEN "receive_buffer" ELSE "send_buffer"

\* the buffer SocketSide::read reads from
side_read_buffer(other) == IF other THEN "send_buffer" ELSE "receive_buffer"

\* the buffer SocketSide::write writes to
side_write_buffer(other) == IF other THEN "receive_buffer" ELSE "send_buffer"

\* SocketSide::read between taking and releasing the lock
side_read(socket, other, n) ==
    Only({[socket |-> [socket EXCEPT ![side_read_buffer(other)] = r.rb],
           len |-> r.len, out |-> r.out]
          : r \in {rb_read(socket[side_read_buffer(other)], n)}})

\* SocketSide::write between taking and releasing the lock
side_write(socket, other, buf) ==
    Only({[socket |-> [socket EXCEPT ![side_write_buffer(other)] = r.rb],
           len |-> r.len]
          : r \in {rb_write(socket[side_write_buffer(other)], buf)}})

\* a side that is in no call
SideIdle == [state |-> "idle", op |-> "none", buf |-> << >>, n |-> 0]

\* no socket is under test
NoSocket ==
    [socket |-> socket_new(0),
     lock   |-> [held |-> FALSE, by |-> FALSE],
     pc     |-> [s \in Sides |-> SideIdle],
     sent   |-> [s \in Sides |-> << >>],
     got    |-> [s \in Sides |-> << >>],
     last   |-> [other |-> FALSE, op |-> "none", ret |-> 0, out |-> << >>]]

\* -------------------------------------------------------- mmap and munmap
\* the width of usize and of the registers, scaled down
WordBits == 6
\* the values of a machine word
WORD == pow2(WordBits)
Words == 0..(WORD - 1)
\* memory::PAGE_SIZE and memory::PROCESS_END, scaled to the width: pages of
\* four bytes, and the kernel in the last quarter of the address space
PAGE_SIZE == 4
PROCESS_END == 3 * (WORD \div 4)

PROT_READ == 1
PROT_WRITE == 2
PROT_EXEC == 4
MAP_SHARED == 1
MAP_FIXED == 2

\* `x & bit != 0` for a bit that is a power of two
bit_set(x, bit) == (x \div bit) % 2 = 1

\* util::is_aligned(addr, align)
is_aligned(addr, align) == addr % align = 0

\* addr.is_aligned_to(align)
is_aligned_to(addr, align) == addr % align = 0

\* math::ceil_division(n, d): the ceiling of n / d
ceil_division(n, d) == (n \div d) + (IF n % d = 0 THEN 0 ELSE 1)

\* math::ceil_div(n, d): the ceiling of n / d
ceil_div(n, d) == (n \div d) + (IF n % d = 0 THEN 0 ELSE 1)

wrapping_add(a, b) == (a + b) % WORD

\* `a * b` on usize overflows: a panic when the build has overflow checks,
\* the product modulo 2^w otherwise
mul_overflows(a, b) == a * b >= WORD

mul(a, b) == (a * b) % WORD

\* what a system call answers when it calls nothing of the memory space
Refused(errno) == [res |-> errno, unmap |-> None, maps |-> << >>]

\* munmap with ebx = addr and ecx = length; unmap_ok: whether
\* mem_space.unmap succeeds. Result: res ("ok", "panic" or the errno) and the
\* arguments of the call of mem_space.unmap, if it is reached
munmap(addr, length, overflow_checks, unmap_ok) ==
    IF ~is_aligned(addr, PAGE_SIZE) \/ length = 0
    THEN Refused("EINVAL")
    ELSE LET pages == ceil_division(length, PAGE_SIZE)
         IN  IF overflow_checks /\ mul_overflows(pages, PAGE_SIZE)
             THEN Refused("panic")
             ELSE LET rounded == mul(pages, PAGE_SIZE)
                      end == wrapping_add(addr, rounded)
                  IN  IF end < addr
                      THEN Refused("EINVAL")
                      ELSE IF addr >= PROCESS_END \/ end > PROCESS_END
                      THEN Refused("EINVAL")
                      ELSE [res   |-> IF unmap_ok THEN "ok" ELSE "ENOMEM",
                            unmap |-> Some([addr |-> addr, pages |-> pages]),
                            maps  |-> << >>]

get_flags(flags, prot) ==
    {"USER"}
      \cup (IF bit_set(flags, MAP_SHARED) THEN {"SHARED"} ELSE {})
      \cup (IF bit_set(prot, PROT_WRITE) THEN {"WRITE"} ELSE {})
      \cup (IF bit_set(prot, PROT_EXEC) THEN {"EXEC"} ELSE {})

\* the files an open file descriptor may stand for, and what the access
\* profile of the process allows on them
MmapFiles ==
    {[type |-> "Directory", can_read |-> TRUE, can_write |-> TRUE,
      can_execute |-> TRUE]}
      \cup {[type |-> "Regular", can_read |-> r, can_write |-> w, can_execute |-> x] :
               r \in BOOLEAN, w \in BOOLEAN, x \in BOOLEAN}

\* do_mmap up to its check for overflow. Result: the errno or "panic", or
\* "checked" and the length in pages
do_mmap_check(addr, length, overflow_checks) ==
    IF ~is_aligned_to(addr, PAGE_SIZE) \/ length = 0
    THEN [res |-> "EINVAL", pages |-> 0]
    ELSE LET pages == ceil_div(length, PAGE_SIZE)
         IN  IF pages = 0
             THEN [res |-> "EINVAL", pages |-> 0]
             ELSE IF overflow_checks /\ mul_overflows(pages, PAGE_SIZE)
             THEN [res |-> "panic", pages |-> 0]
             ELSE IF wrapping_add(addr, mul(pages, PAGE_SIZE)) < addr
             THEN [res |-> "EINVAL", pages |-> 0]
             ELSE [res |-> "checked", pages |-> pages]

\* do_mmap after its check for overflow. file: what get_fd(fd) finds,
\* map_ok: whether the first and the second call of mem_space.map succeed.
\* Result: res ("ok" or the errno) and the calls of mem_space.map in `maps`
do_mmap_map(addr, pages, prot, flags, fd, offset, file, map_ok) ==
    LET constraint ==
            IF addr # 0
            THEN IF bit_set(flags, MAP_FIXED)
                 THEN [kind |-> "Fixed", addr |-> addr]
                 ELSE [kind |-> "Hint", addr |-> addr]
            ELSE [kind |-> "None", addr |-> 0]
        file_mutex == IF fd >= 0 THEN file ELSE None
        residence == IF file_mutex # None THEN "File" ELSE "Normal"
        call(c) == [constraint |-> c, pages |-> pages,
                    flags |-> get_flags(flags, prot), residence |-> residence]
    IN  IF fd >= 0 /\ offset % PAGE_SIZE # 0
        THEN Refused("EINVAL")
        ELSE IF file_mutex # None /\ file_mutex[1].type # "Regular"
        THEN Refused("EACCES")
        ELSE IF /\ file_mutex # None
                /\ \/ bit_set(prot, PROT_READ) /\ ~file_mutex[1].can_read
                   \/ bit_set(prot, PROT_WRITE) /\ ~file_mutex[1].can_write
                   \/ bit_set(prot, PROT_EXEC) /\ ~file_mutex[1].can_execute
        THEN Refused("EPERM")
        ELSE IF map_ok[1]
        THEN [res |-> "ok", unmap |-> None, maps |-> << call(constraint) >>]
        ELSE IF constraint.kind # "None"
        THEN [res   |-> IF map_ok[2] THEN "ok" ELSE "ENOMEM",
              unmap |-> None,
              maps  |-> << call(constraint), call([kind |-> "None", addr |-> 0]) >>]
        ELSE [res |-> "ENOMEM", unmap |-> None, maps |-> << call(constraint) >>]

\* the process is in no system call
NoSys ==
    [op |-> "none", addr |-> 0, length |-> 0, pages |-> 0, res |-> "ok",
     unmap |-> None, maps |-> << >>]

\* ------------------------------------------------------------ state machine
\* hm            the HashMap<u32, u32> under test
\* ref           the reference finite map run side by side: key -> Option<V>
\* last          the last call made on hm and what it returned
\* pure_inserts  TRUE while hm was only built and modified by insert calls
\* hm: the table; ref: the map it stands for; last: the last call and its
\* outcome; pure_inserts: only inserts were called; probe: a find_slot call
\* followed one iteration of its loop at a time; ring: a ring buffer, the
\* last call made on it and what went in and out; sock: a socket, its lock
\* and its two sides; sys: the mmap or munmap call the process is in
VARIABLES hm, ref, last, pure_inserts, probe, ring, sock, sys

vars == << hm, ref, last, pure_inserts, probe, ring, sock, sys >>

NoCall ==
    [op |-> "none", key |-> 0, value |-> 0, additional |-> 0, pred |-> "",
     res |-> "ok", ret |-> None, allocated |-> FALSE, grown |-> 0,
     items |-> << >>, after_end |-> None, calls |-> << >>, retry |-> "none",
     own |-> NoOwn, entry |-> [kind |-> "none", inner |-> None]]

NoRef == [k \in AllKeys |-> None]

\* no find_slot call is followed
NoProbe ==
    [state |-> "idle", key |-> 0, deleted |-> FALSE, start_group |-> 0,
     group |-> 0, visited |-> 0, result |-> None]

Init ==
    /\ pure_inserts = TRUE
    /\ probe = NoProbe
    /\ ring = NoRing
    /\ sock = NoSocket
    /\ sys = NoSys
    /\ \/ /\ hm = new
          /\ ref = NoRef
          /\ last = [NoCall EXCEPT !.op = "new"]
       \/ \E c \in CapacityRequests :
            /\ hm = with_capacity(c)
            /\ ref = NoRef
            /\ last = [NoCall EXCEPT !.op = "with_capacity", !.allocated = TRUE]
       \/ \E n \in BulkSizes :
            /\ hm = from_iter(n)
            /\ ref = [k \in AllKeys |-> IF k < n THEN Some(k) ELSE None]
            /\ last = [NoCall EXCEPT !.op = "from_iter", !.allocated = (n > 0)]

\* a panic halts the kernel
Running == last.res # "panic" /\ last.op # "drop"

Insert(k, v, alloc_ok) ==
    \E r \in {insert(hm, k, v, alloc_ok)} :
        /\ Running
        /\ capacity(r.hm) <= MaxCapacity
        /\ hm' = r.hm
        /\ ref' = IF r.res = "ok" THEN [ref EXCEPT ![k] = Some(v)] ELSE ref
        /\ last' = [NoCall EXCEPT !.op = "insert", !.key = k, !.value = v,
                                  !.res = r.res, !.ret = r.ret,
                                  !.allocated = (r.grown > 0 /\ r.res # "err"),
                                  !.grown = r.grown, !.retry = r.retry,
                                  !.own = r.own]
        /\ UNCHANGED << pure_inserts, probe, ring, sock, sys >>

Remove(k) ==
    \E r \in {remove(hm, k)} :
        /\ Running
        /\ hm' = r.hm
        /\ ref' = [ref EXCEPT ![k] = None]
        /\ last' = [NoCall EXCEPT !.op = "remove", !.key = k, !.ret = r.ret,
                                  !.own = r.own]
        /\ pure_inserts' = FALSE
        /\ UNCHANGED << probe, ring, sock, sys >>

Retain(p) ==
    \E r \in {retain(hm, p)} :
        /\ Running
        /\ hm' = r.hm
        /\ ref' = [k \in AllKeys |->
                     IF ref[k] # None /\ keep(p, k, ref[k][1]) THEN ref[k] ELSE None]
        /\ last' = [NoCall EXCEPT !.op = "retain", !.pred = p,
                                  !.calls = r.calls, !.own = r.own]
        /\ pure_inserts' = FALSE
        /\ UNCHANGED << probe, ring, sock, sys >>

Reserve(a, alloc_ok, overflow_checks) ==
    \E r \in {reserve(hm, a, alloc_ok, overflow_checks)} :
        /\ Running
        /\ capacity(r.hm) <= MaxCapacity
        /\ reserve_capacity(hm.len, a) <= MaxCapacity
        /\ hm' = r.hm
        /\ ref' = ref
        /\ last' = [NoCall EXCEPT !.op = "reserve", !.additional = a,
                                  !.res = r.res, !.allocated = r.allocated,
                                  !.own = r.own]
        /\ pure_inserts' = FALSE
        /\ UNCHANGED << probe, ring, sock, sys >>

Clear ==
    \E r \in {clear(hm)} :
        /\ Running
        /\ hm' = r.hm
        /\ ref' = NoRef
        /\ last' = [NoCall EXCEPT !.op = "clear", !.calls = r.calls, !.own = r.own]
        /\ pure_inserts' = FALSE
        /\ UNCHANGED << probe, ring, sock, sys >>

\* the table goes out of scope: no call follows
Drop ==
    \E r \in {drop(hm)} :
        /\ Running
        /\ hm' = r.hm
        /\ ref' = NoRef
        /\ last' = [NoCall EXCEPT !.op = "drop", !.calls = r.calls, !.own = r.own]
        /\ pure_inserts' = FALSE
        /\ UNCHANGED << probe, ring, sock, sys >>

\* a complete `for` loop over hm.iter(), and one more next() after its None
Iterate ==
    \E c \in {iter_collect(hm)} :
        /\ Running
        /\ last' = [NoCall EXCEPT !.op = "iter", !.items = c.items,
                                  !.after_end = iter_next(hm, c.it).item]
        /\ UNCHANGED << hm, ref, pure_inserts, probe, ring, sock, sys >>

\* entry(k), the Entry not used to change the table
Entry(k) ==
    \E e \in {entry(hm, k)} :
        /\ Running
        /\ last' = [NoCall EXCEPT !.op = "entry", !.key = k, !.entry = e]
        /\ UNCHANGED << hm, ref, pure_inserts, probe, ring, sock, sys >>

Next ==
    \/ \E k \in OpKeys, v \in Vals, alloc_ok \in BOOLEAN : Insert(k, v, alloc_ok)
    \/ \E k \in OpKeys : Entry(k)
    \/ \E k \in OpKeys : Remove(k)
    \/ \E p \in Preds : Retain(p)
    \/ \E a \in Additionals, alloc_ok \in BOOLEAN, overflow_checks \in BOOLEAN :
           Reserve(a, alloc_ok, overflow_checks)
    \/ Clear
    \/ Drop
    \/ Iterate

Spec == Init /\ [][Next]_vars

\* ------------------------------------------------- find_slot, step by step
\* the tables probed: empty ones, tables of 1..MaxGroups full groups, and
\* what retain leaves of these
ProbeTables ==
    {new} \cup {with_capacity(c) : c \in CapacityRequests}
          \cup {from_iter(n) : n \in BulkSizes}
          \cup {from_iter(g * GROUP_SIZE) : g \in 1..MaxGroups}
          \cup {retain(from_iter(g * GROUP_SIZE), p).hm :
                  g \in 1..MaxGroups, p \in Preds}

\* the keys probed for: keys of the tables and keys absent from them, with
\* h1 = 0 (below 128) and h1 = 1
ProbeKeys == {3, 4, 16, 128, 132, 1000}

InitProbe ==
    /\ hm \in ProbeTables
    /\ ref = NoRef
    /\ last = NoCall
    /\ pure_inserts = FALSE
    /\ probe = NoProbe
    /\ ring = NoRing
    /\ sock = NoSocket
    /\ sys = NoSys

\* find_slot up to its loop
ProbeStart(key, deleted) ==
    LET groups_count == capacity_impl(hm.data) \div GROUP_SIZE
        start_group == h1(hash(key)) % groups_count
    IN  /\ probe.state = "idle"
        /\ probe' = IF groups_count = 0
                    THEN [NoProbe EXCEPT !.state = "done", !.key = key,
                                         !.deleted = deleted]
                    ELSE [NoProbe EXCEPT !.state = "loop", !.key = key,
                                         !.deleted = deleted,
                                         !.start_group = start_group,
                                         !.group = start_group]
        /\ UNCHANGED << hm, ref, last, pure_inserts, ring, sock, sys >>

\* one iteration of find_slot's loop
ProbeStep ==
    LET groups_count == capacity_impl(hm.data) \div GROUP_SIZE
        found == find_slot_group(hm.data, probe.key, hash(probe.key),
                                 probe.deleted, probe.group)
        next == find_slot_next_group(probe.group, groups_count)
    IN  /\ probe.state = "loop"
        /\ probe.visited <= MaxGroups
        /\ probe' = IF found # None
                    THEN [probe EXCEPT !.state = "done", !.result = found,
                                       !.visited = @ + 1]
                    ELSE IF find_slot_wrapped(next, probe.start_group)
                    THEN [probe EXCEPT !.state = "done", !.visited = @ + 1]
                    ELSE [probe EXCEPT !.group = next, !.visited = @ + 1]
        /\ UNCHANGED << hm, ref, last, pure_inserts, ring, sock, sys >>

NextProbe ==
    \/ \E key \in ProbeKeys, deleted \in BOOLEAN : ProbeStart(key, deleted)
    \/ ProbeStep

SpecProbe == InitProbe /\ [][NextProbe]_vars

\* --------------------------------------------------- the ring buffer, alone
\* ring.rb is the ring; op, buf, n, ret and out are the last call, the slice
\* or slice length it was given, the count it returned and the elements it
\* copied out; written and taken are the elements write has accepted and
\* read has returned since the ring was new or cleared
InitRing ==
    /\ hm = new
    /\ ref = NoRef
    /\ last = NoCall
    /\ pure_inserts = FALSE
    /\ probe = NoProbe
    /\ sock = NoSocket
    /\ sys = NoSys
    /\ \E n \in RingSizes : ring = [NoRing EXCEPT !.rb = rb_new([i \in 1..n |-> 0])]

RingWrite(buf) ==
    \E r \in {rb_write(ring.rb, buf)} :
        /\ Len(ring.written) < MaxHistory
        /\ ring' = [ring EXCEPT !.rb = r.rb, !.op = "write", !.buf = buf,
                                !.n = Len(buf), !.ret = r.len, !.out = << >>,
                                !.written = @ \o SubSeq(buf, 1, r.len)]
        /\ UNCHANGED << hm, ref, last, pure_inserts, probe, sock, sys >>

RingRead(n) ==
    \E r \in {rb_read(ring.rb, n)} :
        /\ ring' = [ring EXCEPT !.rb = r.rb, !.op = "read", !.buf = << >>,
                                !.n = n, !.ret = r.len, !.out = r.out,
                                !.taken = @ \o r.out]
        /\ UNCHANGED << hm, ref, last, pure_inserts, probe, sock, sys >>

RingPeek(n) ==
    \E r \in {rb_peek(ring.rb, n)} :
        /\ ring' = [ring EXCEPT !.op = "peek", !.buf = << >>, !.n = n,
                                !.ret = r.len, !.out = r.out]
        /\ UNCHANGED << hm, ref, last, pure_inserts, probe, sock, sys >>

\* clear forgets the elements that were not read
RingClear ==
    /\ ring' = [NoRing EXCEPT !.rb = rb_clear(ring.rb), !.op = "clear"]
    /\ UNCHANGED << hm, ref, last, pure_inserts, probe, sock, sys >>

NextRing ==
    \/ \E buf \in RingBufs : RingWrite(buf)
    \/ \E n \in RingLens : RingRead(n)
    \/ \E n \in RingLens : RingPeek(n)
    \/ RingClear

SpecRing == InitRing /\ [][NextRing]_vars

\* ------------------------------------------------- the two sides of a socket
\* sock.socket holds the two buffers; lock is the lock of the SharedPtr that
\* holds the socket; pc[s] is the call side s is in; sent[s] and got[s] are
\* the bytes the socket has accepted from side s and returned to side s
InitSocket ==
    /\ hm = new
    /\ ref = NoRef
    /\ last = NoCall
    /\ pure_inserts = FALSE
    /\ probe = NoProbe
    /\ ring = NoRing
    /\ sock = [NoSocket EXCEPT !.socket = socket_new(SocketBufferSize)]
    /\ sys = NoSys

\* self.sock.lock() of a read or a write of side `other`
SideLock(other, op, buf, n) ==
    /\ sock.pc[other].state = "idle"
    /\ ~sock.lock.held
    /\ op = "write" => Len(sock.sent[other]) < MaxSent
    /\ sock' = [sock EXCEPT !.lock = [held |-> TRUE, by |-> other],
                            !.pc[other] = [state |-> "locked", op |-> op,
                                           buf |-> buf, n |-> n]]
    /\ UNCHANGED << hm, ref, last, pure_inserts, probe, ring, sys >>

\* the body of SocketSide::read, up to the release of the lock on return
SideRead(other) ==
    \E r \in {side_read(sock.socket, other, sock.pc[other].n)} :
        /\ sock.pc[other].state = "locked"
        /\ sock.pc[other].op = "read"
        /\ sock.lock = [held |-> TRUE, by |-> other]
        /\ sock' = [sock EXCEPT !.socket = r.socket,
                                !.lock = [held |-> FALSE, by |-> FALSE],
                                !.pc[other] = SideIdle,
                                !.got[other] = @ \o r.out,
                                !.last = [other |-> other, op |-> "read",
                                          ret |-> r.len, out |-> r.out]]
        /\ UNCHANGED << hm, ref, last, pure_inserts, probe, ring, sys >>

\* the body of SocketSide::write, up to the release of the lock on return
SideWrite(other) ==
    \E r \in {side_write(sock.socket, other, sock.pc[other].buf)} :
        /\ sock.pc[other].state = "locked"
        /\ sock.pc[other].op = "write"
        /\ sock.lock = [held |-> TRUE, by |-> other]
        /\ sock' = [sock EXCEPT !.socket = r.socket,
                                !.lock = [held |-> FALSE, by |-> FALSE],
                                !.pc[other] = SideIdle,
                                !.sent[other] = @ \o SubSeq(sock.pc[other].buf, 1, r.len),
                                !.last = [other |-> other, op |-> "write",
                                          ret |-> r.len, out |-> << >>]]
        /\ UNCHANGED << hm, ref, last, pure_inserts, probe, ring, sys >>

NextSocket ==
    \/ \E other \in Sides : \E buf \in SideBufs(other) : SideLock(other, "write", buf, 0)
    \/ \E other \in Sides, n \in SideLens : SideLock(other, "read", << >>, n)
    \/ \E other \in Sides : SideRead(other)
    \/ \E other \in Sides : SideWrite(other)

SpecSocket == InitSocket /\ [][NextSocket]_vars

\* ------------------------------------------- the mmap and munmap system calls
\* sys is the system call the process is in: its name, addr and length, what
\* it returns and the calls it has made to the memory space of the process
InitSyscall ==
    /\ hm = new
    /\ ref = NoRef
    /\ last = NoCall
    /\ pure_inserts = FALSE
    /\ probe = NoProbe
    /\ ring = NoRing
    /\ sock = NoSocket
    /\ sys = NoSys

\* the inputs of the system calls
MmapProts == {PROT_READ, PROT_READ + PROT_WRITE, PROT_EXEC}
MmapFlags == {0, MAP_FIXED, MAP_SHARED}
MmapFds == {-1, 3}
MmapOffsets == {0, 1}
MmapMapResults == {<< TRUE, TRUE >>, << FALSE, TRUE >>, << FALSE, FALSE >>}

Munmap ==
    /\ sys.op = "none"
    /\ \E addr \in Words, length \in Words, overflow_checks \in BOOLEAN,
          unmap_ok \in BOOLEAN :
        \E r \in {munmap(addr, length, overflow_checks, unmap_ok)} :
            sys' = [NoSys EXCEPT !.op = "munmap", !.addr = addr,
                                 !.length = length, !.res = r.res,
                                 !.unmap = r.unmap]
    /\ UNCHANGED << hm, ref, last, pure_inserts, probe, ring, sock >>

\* mmap, which calls do_mmap, up to do_mmap's check for overflow
MmapCheck ==
    /\ sys.op = "none"
    /\ \E addr \in Words, length \in Words, overflow_checks \in BOOLEAN :
        \E r \in {do_mmap_check(addr, length, overflow_checks)} :
            sys' = [NoSys EXCEPT !.op = "mmap", !.addr = addr, !.length = length,
                                 !.pages = r.pages, !.res = r.res]
    /\ UNCHANGED << hm, ref, last, pure_inserts, probe, ring, sock >>

\* the rest of do_mmap
MmapMap ==
    /\ sys.op = "mmap"
    /\ sys.res = "checked"
    /\ \E prot \in MmapProts, flags \in MmapFlags, fd \in MmapFds,
          offset \in MmapOffsets, file \in {None} \cup {Some(f) : f \in MmapFiles},
          map_ok \in MmapMapResults :
        \E r \in {do_mmap_map(sys.addr, sys.pages, prot, flags, fd, offset, file,
                              map_ok)} :
            sys' = [sys EXCEPT !.res = r.res, !.maps = r.maps]
    /\ UNCHANGED << hm, ref, last, pure_inserts, probe, ring, sock >>

\* the system call returns to the process; a panic halts the kernel
SysReturn ==
    /\ sys.op # "none"
    /\ sys.res \notin {"panic", "checked"}
    /\ sys' = NoSys
    /\ UNCHANGED << hm, ref, last, pure_inserts, probe, ring, sock >>

NextSyscall ==
    \/ Munmap
    \/ MmapCheck
    \/ MmapMap
    \/ SysReturn

SpecSyscall == InitSyscall /\ [][NextSyscall]_vars

\* -------------------------------------------------------- model well-formed
\* the slot and control regions have one entry per slot of capacity(), and a
\* slot is initialized exactly when its control byte says occupied
TypeOK ==
    /\ Len(hm.data.slots) = capacity(hm)
    /\ Len(hm.data.ctrl) = capacity(hm)
    /\ \A i \in 1..Len(hm.data.ctrl) :
         /\ hm.data.ctrl[i] \in (0..127) \cup {CTRL_EMPTY, CTRL_DELETED}
         /\ hm.data.slots[i].init <=> (hm.data.ctrl[i] < 128)

\* ------------------------------------------------------------------- claims
\* the keys the reference map holds
Present == {k \in AllKeys : ref[k] # None}

Occupied == {i \in 1..Len(hm.data.ctrl) : hm.data.ctrl[i] < 128}

Tombstones == {i \in 1..Len(hm.data.ctrl) : hm.data.ctrl[i] = CTRL_DELETED}

\* C1: after any sequence of insert, remove, retain, reserve and clear calls,
\* get(k) returns what the reference map holds for k, for every key k.
C1_GetRefinesReferenceMap == \A k \in AllKeys : get(hm, k) = ref[k]

\* C2: an insert of a key that get finds present returns the previous value,
\* leaves len unchanged, and a following get returns the new value.
C2_IdempotentOverwrite ==
    [][\A k \in OpKeys :
         (get(hm, k) # None /\ last'.op = "insert" /\ last'.key = k /\ last'.res = "ok")
            => /\ last'.ret = get(hm, k)
               /\ hm'.len = hm.len
               /\ get(hm', k) = Some(last'.value)]_vars

\* C3: remove(k) right after a successful insert(k, v) returns Some(v), and
\* then get(k) is None and contains_key(k) is false.
C3_InsertRemoveRoundTrip ==
    [][(last.op = "insert" /\ last.res = "ok" /\ last'.op = "remove" /\ last'.key = last.key)
          => /\ last'.ret = Some(last.value)
             /\ get(hm', last.key) = None
             /\ ~contains_key(hm', last.key)]_vars

\* C4: len equals the number of control bytes with the high bit clear.
C4_LenCountsOccupied == hm.len = Cardinality(Occupied)

\* C4 witness: a retain pass has removed entries of a full group, leaving
\* tombstones next to live entries.
C4_Witness ==
    /\ last.op = "retain"
    /\ hm.len > 0
    /\ Cardinality(Tombstones) > 1

\* C5: while only insert calls were made on a table that started empty, len
\* is the number of distinct keys inserted and get returns the most recently
\* inserted value of each inserted key and None for every other key.
C5_InsertOnly ==
    pure_inserts =>
        /\ hm.len = Cardinality(Present)
        /\ \A k \in AllKeys : get(hm, k) = ref[k]

\* C5 witness: a bulk build filled one group, an insert of a new key grew the
\* table, and a later insert overwrote a key.
C5_Witness ==
    /\ pure_inserts
    /\ last.op = "insert"
    /\ last.res = "ok"
    /\ last.ret # None
    /\ ref[GROUP_SIZE] = None
    /\ hm.len > GROUP_SIZE
    /\ capacity(hm) = 2 * GROUP_SIZE

\* C6: a complete iteration yields len pairs, every present key exactly once
\* and no other key, and next() after the final None is None again.
C6_IterationYieldsEachKeyOnce ==
    last.op = "iter" =>
        /\ Len(last.items) = hm.len
        /\ \A i, j \in 1..Len(last.items) :
             last.items[i].key = last.items[j].key => i = j
        /\ {last.items[i].key : i \in 1..Len(last.items)} = Present
        /\ last.after_end = None

\* C7: a successful reserve, called directly or from insert's no-slot branch,
\* leaves the mapping seen through get and len as it was (but for the entry
\* the insert adds).
C7_GrowthPreservesData ==
    [][/\ (last'.op = "reserve" /\ last'.res = "ok")
            => /\ \A k \in AllKeys : get(hm', k) = get(hm, k)
               /\ hm'.len = hm.len
       /\ (last'.op = "insert" /\ last'.res = "ok" /\ last'.grown > 0)
            => /\ \A k \in AllKeys \ {last'.key} : get(hm', k) = get(hm, k)
               /\ get(hm', last'.key) = Some(last'.value)
               /\ hm'.len = hm.len + 1]_vars

\* C7 witness: reserve has rehashed more than one group of entries into a
\* new buffer.
C7_Witness ==
    /\ last.op = "reserve"
    /\ last.res = "ok"
    /\ last.allocated
    /\ hm.len > GROUP_SIZE

\* C8: when the allocation of the new buffer fails, reserve and insert
\* return the error and the table is exactly as before the call.
C8_GrowthAllOrNothing ==
    [][last'.res = "err" => (hm' = hm /\ capacity(hm') = capacity(hm))]_vars

\* C8 witness: an insert into a full, non-empty table has failed to allocate.
C8_Witness ==
    /\ last.op = "insert"
    /\ last.res = "err"
    /\ hm.len = capacity(hm)
    /\ hm.len > 0

\* C9: reserve(additional) allocates nothing and changes nothing whenever
\* capacity() >= len() + additional.
C9_ReserveNoOpWhenCovered ==
    [][(/\ last'.op = "reserve"
        /\ last'.additional >= 0
        /\ capacity(hm) >= hm.len + last'.additional)
          => (hm' = hm /\ ~last'.allocated)]_vars

\* C10: capacity() is a multiple of the group width.
C10_CapacityGroupAligned == capacity(hm) % GROUP_SIZE = 0

\* C10 witness: a table of three groups, which is not a power of two, holds
\* entries.
C10_Witness ==
    /\ capacity(hm) = 3 * GROUP_SIZE
    /\ hm.len > 0

\* C11: after a successful reserve(n), capacity() >= len() + n. No buffer
\* has room for usize::MAX more elements, so a reserve(usize::MAX) that
\* returns Ok breaks it.
C11_ReserveMakesRoom ==
    (last.op = "reserve" /\ last.res = "ok")
        => /\ last.additional >= 0
           /\ capacity(hm) >= hm.len + last.additional

\* C12: a table made by new() has capacity 0, len 0 and no buffer, and the
\* first successful insert into it allocates: capacity 16 and len 1.
C12_NewThenFirstInsert ==
    [][last.op = "new"
          => /\ capacity(hm) = 0
             /\ hm.len = 0
             /\ hm.data = EmptyVec
             /\ ~last.allocated
             /\ (last'.op = "insert" /\ last'.res = "ok")
                  => /\ capacity(hm') = GROUP_SIZE
                     /\ hm'.len = 1
                     /\ last'.allocated]_vars

\* C12 witness: the first insert into a table that was never anything but
\* empty has allocated its first group.
C12_Witness ==
    /\ pure_inserts
    /\ last.op = "insert"
    /\ last.res = "ok"
    /\ last.grown = 1
    /\ hm.len = 1
    /\ capacity(hm) = GROUP_SIZE

\* the entries of a table: slot, key and value of each occupied slot
Entries(h) ==
    {[slot |-> i, key |-> h.data.slots[i].key, value |-> h.data.slots[i].value] :
       i \in {j \in 1..Len(h.data.ctrl) : h.data.ctrl[j] < 128}}

\* C13: after retain(p) the table holds exactly the previously live entries
\* for which p is true, p has been called exactly once per previously live
\* entry, len has decreased by the number of entries for which p is false,
\* and every kept key is still found by get.
C13_RetainKeepsExactly ==
    [][last'.op = "retain"
          => LET before == Entries(hm)
                 kept == {e \in before : keep(last'.pred, e.key, e.value)}
                 called == {(last'.calls[n] \div SlotSize) + 1 :
                              n \in 1..Len(last'.calls)}
             IN  /\ Entries(hm') = kept
                 /\ capacity(hm') = capacity(hm)
                 /\ called = {e.slot : e \in before}
                 /\ Len(last'.calls) = Cardinality(before)
                 /\ hm'.len = hm.len - Cardinality(before \ kept)
                 /\ \A e \in kept : get(hm', e.key) # None]_vars

\* C13 witness: retain has removed some entries of a table of more than one
\* group, kept others, and left a tombstone.
C13_Witness ==
    /\ last.op = "retain"
    /\ Len(last.calls) > GROUP_SIZE
    /\ hm.len > 0
    /\ hm.len < Len(last.calls)
    /\ Tombstones # {}

\* the slots of the table that are EMPTY or DELETED
Unused == {i \in 1..Len(hm.data.ctrl) : hm.data.ctrl[i] >= 128}

\* C14: insert grows the table (calls reserve, changes the capacity) only
\* when no slot is EMPTY or DELETED; an insert that follows a remove which
\* vacated a slot keeps the capacity, and when that remove emptied the table
\* the insert ends with len 1.
C14_TombstoneReuse ==
    [][last'.op = "insert"
          => /\ (last'.grown > 0 \/ capacity(hm') # capacity(hm)) => Unused = {}
             /\ (last.op = "remove" /\ last.ret # None)
                  => /\ last'.res = "ok"
                     /\ last'.grown = 0
                     /\ capacity(hm') = capacity(hm)
                     /\ hm.len = 0 => hm'.len = 1]_vars

\* C14 witness: an insert has put a new entry into a table that was full of
\* entries and tombstones, without growing it.
C14_Witness ==
    /\ last.op = "insert"
    /\ last.res = "ok"
    /\ last.ret = None
    /\ last.grown = 0
    /\ capacity(hm) = GROUP_SIZE
    /\ Tombstones # {}
    /\ \A i \in Unused : hm.data.ctrl[i] = CTRL_DELETED
    /\ hm.len > 2

\* C16: when insert finds no slot and reserve(1) succeeds, the retried insert
\* (last.retry tells how it ended) finds a free slot: reserve is called once,
\* the retry's result is Ok, and the grown table had room for the new entry.
C16_RetryFindsSlot ==
    (last.op = "insert" /\ last.retry # "none")
        => /\ last.grown = 1
           /\ last.retry = "ok"
           /\ last.res = "ok"
           /\ capacity(hm) >= hm.len

\* C16 witness: an insert into a full table of one group has grown it to two
\* groups and its retry has written the entry.
C16_Witness ==
    /\ last.op = "insert"
    /\ last.res = "ok"
    /\ last.retry = "ok"
    /\ last.grown = 1
    /\ hm.len = GROUP_SIZE + 1
    /\ capacity(hm) = 2 * GROUP_SIZE

\* the slots of the group of slot i
GroupOf(i) == {j \in 1..Len(hm.data.ctrl) :
                 (j - 1) \div GROUP_SIZE = (i - 1) \div GROUP_SIZE}

\* C15: when remove(k) vacates a slot, the slot's control byte becomes EMPTY
\* if and only if its group held an EMPTY byte before the removal, and
\* DELETED when the group held none; no other control byte changes.
C15_RemovalTombstonePolicy ==
    [][(last'.op = "remove" /\ last'.ret # None)
          => LET vacated == {i \in 1..Len(hm.data.ctrl) :
                               hm'.data.ctrl[i] # hm.data.ctrl[i]}
             IN  /\ Len(hm'.data.ctrl) = Len(hm.data.ctrl)
                 /\ Cardinality(vacated) = 1
                 /\ \A i \in vacated :
                      LET had_empty == \E j \in GroupOf(i) :
                                          hm.data.ctrl[j] = CTRL_EMPTY
                      IN  /\ hm.data.ctrl[i] < 128
                          /\ hm.data.slots[i].key = last'.key
                          /\ hm'.data.ctrl[i] = CTRL_EMPTY <=> had_empty
                          /\ hm'.data.ctrl[i] = CTRL_DELETED <=> ~had_empty]_vars

\* C15 witness: remove has vacated a slot of a group without EMPTY bytes and
\* left a tombstone in it.
C15_Witness ==
    /\ last.op = "remove"
    /\ last.ret # None
    /\ capacity(hm) = GROUP_SIZE
    /\ Tombstones # {}
    /\ \A i \in Unused : hm.data.ctrl[i] = CTRL_DELETED

\* C18: each occupied slot's control byte is h2(hash(key)) of the key stored
\* in the slot.
C18_ControlByteIsH2 ==
    \A i \in Occupied :
        /\ hm.data.slots[i].init
        /\ hm.data.ctrl[i] = h2(hash(hm.data.slots[i].key))
        /\ hm.data.ctrl[i] = hash(hm.data.slots[i].key) % 128

\* C18 witness: an insert has filled a tombstone of the first group of a
\* table that reserve had rehashed into a buffer of four groups.
C18_Witness ==
    /\ last.op = "insert"
    /\ last.res = "ok"
    /\ last.ret = None
    /\ last.grown = 0
    /\ capacity(hm) = 4 * GROUP_SIZE
    /\ Tombstones # {}
    /\ \A i \in GroupOf(1) : hm.data.ctrl[i] # CTRL_EMPTY
    /\ \E i \in GroupOf(1) : hm.data.ctrl[i] < 128 /\ hm.data.slots[i].key \in OpKeys

\* C19: every key and every value moved into the table is destructed by the
\* table or handed back exactly once. Each call keeps the account: the keys
\* and the values the table holds afterwards are those it held before, plus
\* those taken from the caller, minus those destructed or handed back; no
\* call destructs or reads an empty slot, writes over an entry or releases a
\* buffer that still holds one; growth moves every entry once and destructs
\* none; and the table's destruction leaves no entry behind.
C19_SingleOwnership ==
    [][last'.res # "panic"
          => LET own == last'.own
                 before == Cardinality(live_slots(hm.data))
                 after == Cardinality(live_slots(hm'.data))
             IN  /\ ~own.unsound
                 /\ after = before + own.keys_in - own.key_drops
                 /\ after = before + own.values_in - own.value_drops - own.values_out
                 /\ own.values_out = (IF last'.ret = None THEN 0 ELSE 1)
                 /\ (last'.allocated /\ last'.res = "ok")
                      => /\ own.moved = before
                         /\ own.key_drops = 0
                         /\ own.value_drops = 0
                 /\ last'.op \in {"clear", "drop"}
                      => /\ after = 0
                         /\ own.key_drops = before
                         /\ own.value_drops = before]_vars

\* C19 witness: the table has been destructed while it held more than one
\* group of entries.
C19_Witness ==
    /\ last.op = "drop"
    /\ last.own.key_drops > GROUP_SIZE
    /\ last.own.value_drops > GROUP_SIZE
    /\ ref = NoRef

\* C20: after clear(), len() = 0, capacity() = 0, get of every key is None
\* and iteration yields nothing; a following insert fails only on the
\* allocation and otherwise allocates a fresh buffer of capacity 16 that holds
\* the inserted entry and nothing else: no tombstone, no earlier entry.
C20_ClearResets ==
    [][/\ last'.op = "clear"
            => /\ hm'.len = 0
               /\ capacity(hm') = 0
               /\ \A k \in AllKeys : get(hm', k) = None
               /\ iter_collect(hm').items = << >>
       /\ (last.op = "clear" /\ last'.op = "insert")
            => /\ last'.res \in {"ok", "err"}
               /\ last'.res = "ok"
                    => /\ last'.allocated
                       /\ capacity(hm') = GROUP_SIZE
                       /\ hm'.len = 1
                       /\ \A i \in 1..Len(hm'.data.ctrl) :
                            hm'.data.ctrl[i] # CTRL_DELETED
                       /\ \A k \in AllKeys :
                            get(hm', k) = IF k = last'.key
                                          THEN Some(last'.value) ELSE None
                       /\ iter_collect(hm').items =
                            << [key |-> last'.key, value |-> last'.value] >>]_vars

\* C20 witness: clear has emptied a table that held more than one group of
\* entries.
C20_Witness ==
    /\ last.op = "clear"
    /\ Len(last.calls) > GROUP_SIZE
    /\ hm.len = 0
    /\ capacity(hm) = 0
    /\ hm.data = EmptyVec

\* C17: a probe visits at most group_count groups: while it is in its loop it
\* has visited fewer than group_count groups and is at the group that many
\* steps after its first one, so that the next iteration ends it or leaves a
\* group to visit; it ends with the result of find_slot; with capacity 0 it
\* ends not-found without visiting any group.
C17_ProbeTerminates ==
    LET groups_count == capacity(hm) \div GROUP_SIZE
    IN  /\ probe.visited <= groups_count
        /\ probe.state = "loop"
             => /\ probe.visited < groups_count
                /\ probe.group = (probe.start_group + probe.visited) % groups_count
        /\ probe.state = "done"
             => /\ probe.result = find_slot(hm.data, probe.key, hash(probe.key),
                                            probe.deleted)
                /\ groups_count = 0 => (probe.visited = 0 /\ probe.result = None)
                /\ groups_count > 0 => probe.visited >= 1

\* C17 witness: a probe that does not start at the first group has visited
\* every group of a table of MaxGroups groups without an EMPTY slot and ended
\* not-found.
C17_Witness ==
    /\ probe.state = "done"
    /\ probe.result = None
    /\ probe.start_group > 0
    /\ probe.visited = MaxGroups
    /\ capacity(hm) = MaxGroups * GROUP_SIZE

\* C21: entry(k) returns Occupied exactly when get(k) is Some, and then refers
\* to the slot that holds k; otherwise it returns Vacant, with a slot exactly
\* when the table has an EMPTY or DELETED slot and without one exactly when
\* the table has to grow first.
C21_EntryMatchesGet ==
    last.op = "entry" =>
        /\ (last.entry.kind = "Occupied") <=> (get(hm, last.key) # None)
        /\ last.entry.kind = "Occupied" =>
              /\ last.entry.inner # None
              /\ hm.data.ctrl[last.entry.inner[1] \div SlotSize + 1] < 128
              /\ get_slot(hm.data, last.entry.inner[1]).key = last.key
        /\ last.entry.kind = "Vacant" =>
              ((last.entry.inner # None) <=> (Unused # {}))

\* the groups find_slot visits for `key` before it reaches group g
GroupsBefore(h, key, g) ==
    LET groups_count == capacity(h) \div GROUP_SIZE
        start_group == h1(hash(key)) % groups_count
        steps == (g + groups_count - start_group) % groups_count
    IN  {(start_group + d) % groups_count : d \in 0..(steps - 1)}

\* C22: when a group on the probe sequence of a key holds an unused slot
\* (EMPTY or DELETED), the key is not stored in any group further along, so
\* a tombstone-reusing lookup that stops at the first unused slot never
\* misses a present key.
C22_NoKeyBeyondUnusedSlot ==
    \A e \in Entries(hm) :
        \A g \in GroupsBefore(hm, e.key, (e.slot - 1) \div GROUP_SIZE) :
            \A i \in 0..(GROUP_SIZE - 1) : get_ctrl(hm.data, g)[i] < 128

\* C23: remove(k) of a key the table does not hold returns None and leaves
\* the table as it was: len, capacity, every control byte and every entry.
C23_RemoveAbsentChangesNothing ==
    [][(last'.op = "remove" /\ get(hm, last'.key) = None) =>
           /\ last'.ret = None
           /\ hm' = hm
           /\ last'.own = NoOwn]_vars

\* a remove of an absent key on a table that holds entries and tombstones
C23_Witness ==
    /\ last.op = "remove"
    /\ last.ret = None
    /\ hm.len > 0
    /\ Tombstones # {}
    /\ Unused \ Tombstones # {}

\* the elements a ring holds, oldest first, read off its cells
Stored(rb) ==
    [i \in 1..get_data_len(rb) |->
       rb.buffer[((rb.read_cursor + i - 1) % get_size(rb)) + 1]]

\* C24: on a ring over N cells, write(buf) stores exactly the first
\* min(len(buf), N - 1 - get_data_len()) elements of buf and returns that
\* count; get_data_len() <= N - 1 and get_data_len() + get_available_len()
\* = N - 1 in every state, and a ring that holds elements never has
\* read_cursor = write_cursor.
C24_RingHoldsSizeMinusOne ==
    [][/\ ring'.op = "write" =>
            /\ ring'.ret = min(Len(ring'.buf),
                               get_size(ring.rb) - 1 - get_data_len(ring.rb))
            /\ Stored(ring'.rb) = Stored(ring.rb) \o SubSeq(ring'.buf, 1, ring'.ret)
            /\ ring'.rb.read_cursor = ring.rb.read_cursor
       /\ get_data_len(ring'.rb) <= get_size(ring'.rb) - 1
       /\ get_data_len(ring'.rb) + get_available_len(ring'.rb) = get_size(ring'.rb) - 1
       /\ Len(ring'.written) > Len(ring'.taken) => ~is_empty(ring'.rb)
      ]_vars

\* a write of N elements into an empty ring of N cells, which stores N - 1 of
\* them around the end of the linear buffer
C24_Witness ==
    /\ ring.op = "write"
    /\ get_size(ring.rb) = 3
    /\ Len(ring.buf) = 3
    /\ ring.ret = 2
    /\ get_data_len(ring.rb) = 2
    /\ get_available_len(ring.rb) = 0
    /\ ring.rb.write_cursor < ring.rb.read_cursor

\* s is a prefix of t
IsPrefix(s, t) == Len(s) <= Len(t) /\ SubSeq(t, 1, Len(s)) = s

\* C25: the ring is first in, first out: whatever way write and read calls
\* follow each other, cursors wrapping included, the elements read make up a
\* prefix of the elements write has accepted, in the same order, and a read
\* on an empty ring returns 0 and leaves both cursors where they were.
C25_RingIsFifo ==
    [][/\ IsPrefix(ring'.taken, ring'.written)
       /\ ring'.op = "read" =>
            /\ ring'.ret = min(ring'.n, Len(ring.written) - Len(ring.taken))
            /\ ring'.out = SubSeq(ring.written, Len(ring.taken) + 1,
                                  Len(ring.taken) + ring'.ret)
            /\ ring'.rb.write_cursor = ring.rb.write_cursor
       /\ (ring'.op = "read" /\ is_empty(ring.rb)) =>
            /\ ring'.ret = 0
            /\ ring'.rb = ring.rb
      ]_vars

\* a read of elements that lie around the end of the linear buffer, after an
\* earlier read
C25_Witness ==
    /\ ring.op = "read"
    /\ ring.ret = 2
    /\ Len(ring.taken) > 2
    /\ ring.out[1] # ring.out[2]
    /\ ring.rb.read_cursor = 1

\* C26: a side of a socket never reads what it wrote itself: however the
\* reads and writes of the two sides follow each other, each under the lock
\* of the socket, the bytes returned to a side are bytes the other side
\* wrote, in the order they were written.
C26_SideReadsOtherSide ==
    /\ \A s \in Sides :
         /\ IsPrefix(sock.got[s], sock.sent[~s])
         /\ \A i \in 1..Len(sock.got[s]) : sock.got[s][i] \notin SideBytes(s)
    /\ sock.last.op = "read" =>
         \A i \in 1..Len(sock.last.out) :
            sock.last.out[i] \in SideBytes(~sock.last.other)

\* both sides have written and have read what the other wrote, the last read
\* returning two different bytes
C26_Witness ==
    /\ \A s \in Sides : Len(sock.sent[s]) >= 2 /\ Len(sock.got[s]) >= 2
    /\ sock.last.op = "read"
    /\ sock.last.ret = 2
    /\ sock.last.out[1] # sock.last.out[2]
    /\ sock.pc[~sock.last.other].state = "locked"

\* C27: while reserve moves the entries to the new buffer, find_slot finds a
\* slot of the new buffer for every entry and the slot is not occupied:
\* neither the unwrap nor the assert!(!occupied) of the rehash fails, in a
\* reserve call as in the reserve of an insert that grows the table.
C27_RehashNeverPanics ==
    /\ last.op = "reserve" => ~(last.res = "panic" /\ last.allocated)
    /\ last.op = "insert" =>
         ~(last.res = "panic" /\ last.grown > 0 /\ last.retry = "none")

\* C28: no two occupied slots hold equal keys: the table has as many occupied
\* slots as it has keys, also after insert(k, v) of a key that is stored in
\* a group further along its probe sequence than a group with a tombstone.
C28_KeysAreUnique ==
    /\ \A e1, e2 \in Entries(hm) : e1.key = e2.key => e1.slot = e2.slot
    /\ Cardinality(Occupied) = Cardinality({e.key : e \in Entries(hm)})

\* C29: for every occupied slot, holding key k in group g, no group that
\* find_slot visits for k before g holds an EMPTY byte, so that the plain
\* lookup of get and remove reaches every key the table holds.
C29_NoEmptyBeforeKey ==
    \A e \in Entries(hm) :
        /\ \A g \in GroupsBefore(hm, e.key, (e.slot - 1) \div GROUP_SIZE) :
              \A i \in 0..(GROUP_SIZE - 1) : get_ctrl(hm.data, g)[i] # CTRL_EMPTY
        /\ get(hm, e.key) # None

\* a key that lies one group beyond its first group, which holds tombstones
\* left by retain or remove
C29_Witness ==
    /\ last.op \in {"retain", "remove"}
    /\ \E e \in Entries(hm) :
         \E g \in GroupsBefore(hm, e.key, (e.slot - 1) \div GROUP_SIZE) :
            \E i \in 0..(GROUP_SIZE - 1) : get_ctrl(hm.data, g)[i] = CTRL_DELETED

\* C30: retain chooses between EMPTY and DELETED once for each group, from
\* the control bytes the group has before the pass removes anything from it,
\* and gives that byte to every slot it removes from the group; the control
\* bytes of the slots it keeps and of the slots that were unused stay as they
\* were.
C30_RetainMarksPerGroup ==
    [][last'.op = "retain" =>
         /\ capacity(hm') = capacity(hm)
         /\ \A j \in 1..Len(hm.data.ctrl) :
              LET before == hm.data.ctrl[j]
                  group_had_empty == \E i \in GroupOf(j) : hm.data.ctrl[i] = CTRL_EMPTY
                  removed == /\ before < 128
                             /\ ~keep(last'.pred, hm.data.slots[j].key,
                                      hm.data.slots[j].value)
              IN  hm'.data.ctrl[j] =
                     IF ~removed THEN before
                     ELSE IF group_had_empty THEN CTRL_EMPTY
                     ELSE CTRL_DELETED]_vars

\* a retain that removed entries from a full group and from a group with
\* EMPTY bytes, and kept entries in both
C30_Witness ==
    /\ last.op = "retain"
    /\ \A byte \in {CTRL_EMPTY, CTRL_DELETED} :
         \E n \in 1..Len(last.calls) :
            LET j == last.calls[n] \div SlotSize + 1
            IN  /\ hm.data.ctrl[j] = byte
                /\ \E i \in GroupOf(j) : hm.data.ctrl[i] < 128

\* C31: in every reachable state no group holds both an EMPTY and a DELETED
\* control byte: a tombstone is only written into a group without EMPTY
\* bytes, and a removal writes EMPTY only into a group that holds EMPTY.
C31_NoEmptyBesideDeleted ==
    \A i, j \in 1..Len(hm.data.ctrl) :
        (hm.data.ctrl[i] = CTRL_EMPTY /\ hm.data.ctrl[j] = CTRL_DELETED) =>
            j \notin GroupOf(i)

\* after a remove that vacated a slot, one group holds tombstones beside
\* entries and another group holds EMPTY bytes beside entries
C31_Witness ==
    /\ last.op = "remove"
    /\ last.ret # None
    /\ \E i \in Tombstones : \E j \in GroupOf(i) : hm.data.ctrl[j] < 128
    /\ \E i \in Occupied : \E j \in GroupOf(i) : hm.data.ctrl[j] = CTRL_EMPTY

\* C32: peek does not consume: peek(buf) returns min(len(buf),
\* get_data_len()), copies the elements the next read of the same length
\* would return, oldest first, and leaves read_cursor, write_cursor and the
\* stored elements as they were, also when the data lies around the end of
\* the linear buffer.
C32_PeekDoesNotConsume ==
    [][ring'.op = "peek" =>
         /\ ring'.ret = min(ring'.n, get_data_len(ring.rb))
         /\ ring'.out = SubSeq(Stored(ring.rb), 1, ring'.ret)
         /\ ring'.out = SubSeq(ring.written, Len(ring.taken) + 1,
                               Len(ring.taken) + ring'.ret)
         /\ ring'.out = rb_read(ring'.rb, ring'.n).out
         /\ ring'.ret = rb_read(ring'.rb, ring'.n).len
         /\ ring'.rb = ring.rb
         /\ ring'.written = ring.written
         /\ ring'.taken = ring.taken]_vars

\* a peek of two different elements that lie around the end of the linear
\* buffer
C32_Witness ==
    /\ ring.op = "peek"
    /\ ring.ret = 2
    /\ ring.n = 2
    /\ ring.out[1] # ring.out[2]
    /\ ring.rb.read_cursor = get_size(ring.rb) - 1
    /\ get_data_len(ring.rb) = 2

\* the end of the range of whole pages that starts at addr and covers length
\* bytes, as an integer and not as a machine word
RoundedEnd(addr, length) ==
    addr + ((length + PAGE_SIZE - 1) \div PAGE_SIZE) * PAGE_SIZE

\* C33: munmap never unmaps kernel memory: a call that reaches
\* mem_space.unmap(addr, pages, ..) has addr + pages * PAGE_SIZE <=
\* PROCESS_END, without wrap-around, and every request whose range of whole
\* pages goes beyond PROCESS_END, or wraps around the end of the address
\* space, returns EINVAL and unmaps nothing.
C33_MunmapSparesKernel ==
    sys.op = "munmap" =>
        /\ sys.unmap # None =>
              /\ sys.unmap[1].addr = sys.addr
              /\ sys.unmap[1].addr + sys.unmap[1].pages * PAGE_SIZE <= PROCESS_END
        /\ (sys.addr >= PROCESS_END \/ RoundedEnd(sys.addr, sys.length) > PROCESS_END) =>
              /\ sys.res = "EINVAL"
              /\ sys.unmap = None

\* C34: do_mmap returns EINVAL and maps nothing when addr is not aligned on a
\* page, when length is 0, and when the end of the range of whole pages,
\* addr + ceil(length / PAGE_SIZE) * PAGE_SIZE, does not fit in a machine
\* word; no such request reaches mem_space.map.
C34_MmapRefusesBadRange ==
    (/\ sys.op = "mmap"
     /\ sys.res # "checked"
     /\ \/ sys.addr % PAGE_SIZE # 0
        \/ sys.length = 0
        \/ RoundedEnd(sys.addr, sys.length) >= WORD) =>
        /\ sys.res = "EINVAL"
        /\ sys.maps = << >>

====
